---------------------------- MODULE Spec2Model ----------------------------
(***************************************************************************)
(* A model of QuizGame.cpp: the timed-question loop of startQuiz, its      *)
(* lifelines, the scoring that follows every question and the files the    *)
(* session writes.                                                         *)
(*                                                                         *)
(* C arrays are functions from their 0-based index; only the cells the     *)
(* code has written are in the domain.  rand() is a nondeterministic       *)
(* draw.  The clock is read only in differences with endTime, so the       *)
(* current reading time(NULL) is taken as the origin (now == 0) and time   *)
(* passing moves endTime closer, TickStep seconds at a time.               *)
(* result.playerName and result.timestamp are not modelled.                *)
(***************************************************************************)
EXTENDS Integers, Sequences, FiniteSets, TLC

VARIABLES
    allQ,            \* Question allQ[MAX_QUESTIONS], cells 0..allCount-1
    quizQuestions,   \* Question quizQuestions[], cells 0..quizCount-1
    qi,              \* the for-loop index of startQuiz
    lif_5050, lif_skip, lif_replace, lif_extra,
    score, correctCount, wrongCount, streak,
    result,          \* QuizResult result
    visibleOptions, visibleCount,
    remainingSeconds,
    endTime,         \* time_t endTime, relative to now
    pc,              \* "start" and "resumed" (main's menu, the second after choice 3
                     \* has shown a snapshot), "running", "menu" (inside
                     \* getIntInRange(0,4)), "done"; "scoring" and "scores" where
                     \* only the scoring or the high-score functions are run;
                     \* "main" (main's menu, no bank loaded) and "failed" (the
                     \* prompt of line 303) where the category file is loaded
    saveFile, highScoreFile, logFile,
    outcomes,        \* history: how each completed question left the loop
    categoryFile,    \* the category file on disk, as the sequence of the records
                     \* it was written from; empty where the bank is given loaded
    fileOps,         \* history: the calls that wrote or removed a file in the
                     \* latest step that made any, in the order of the code
    kbd              \* the console input _kbhit and _getch read: the bytes
                     \* waiting (buf) and those of a key press still to come (late)

(* What the program holds and its files *)
quizVars == <<allQ, categoryFile, quizQuestions, qi, lif_5050, lif_skip, lif_replace, lif_extra,
              score, correctCount, wrongCount, streak, result, visibleOptions,
              visibleCount, remainingSeconds, endTime, pc, saveFile,
              highScoreFile, logFile, outcomes, fileOps>>

vars == <<quizVars, kbd>>

-----------------------------------------------------------------------------
(* Program constants *)
MAX_OPTIONS == 4
MAX_QUESTIONS == 500
MAX_QUIZ_QUESTIONS == 50
QUIZ_LENGTH == 10
DEFAULT_TIME_PER_QUESTION == 10
EXTRA_TIME_AMOUNT == 10

(* time(NULL): the origin of the clock *)
now == 0

(* Bounds of the model *)
MaxLate == 1        \* seconds the clock may run past endTime
TickStep == 3       \* seconds between two readings of the clock
MaxScored == 10     \* questions folded by the scoring specification
DrawnCells == 4     \* cells of a long pool whose draw is left open
MaxLines == 5       \* lines of the progress files loadProgress is given
MaxWrites == 2      \* entries written to the high-score file
MaxPending == 2     \* bytes of console input waiting or still to come
MaxRecords == 2     \* question records of the category files tried

-----------------------------------------------------------------------------
(* Helpers on arrays *)
Put(f, i, v) == [j \in (DOMAIN f) \cup {i} |-> IF j = i THEN v ELSE f[j]]
Swap(arr, i, j) == [arr EXCEPT ![i] = arr[j], ![j] = arr[i]]
Max0(x) == IF x < 0 THEN 0 ELSE x
Empty == [i \in {} |-> 0]

(* The values rand() % (i + 1) takes in one run of shuffleIntArray on n cells *)
Draws(n) == { d \in [1 .. (n - 1) -> 0 .. (n - 1)] : \A i \in 1 .. (n - 1) : d[i] <= i }

(* The draws of one shuffle of four options: all of them, and the two the  *)
(* session specification takes (the first call of rand(), i = 3, swaps     *)
(* cell 3 with cell 1 or with itself; the later calls move nothing)        *)
OptionDraws == Draws(MAX_OPTIONS)
QuizDraws == { d \in OptionDraws : d[1] = 1 /\ d[2] = 2 /\ d[3] \in {1, 3} }

RECURSIVE ShuffleFrom(_, _, _)
ShuffleFrom(arr, i, d) ==
    IF i <= 0 THEN arr
    ELSE ShuffleFrom(Swap(arr, i, d[i]), i - 1, d)

shuffleIntArray(arr, n, d) == ShuffleFrom(arr, n - 1, d)

(* shuffleOptions with correctIndex left where the bank had it *)
shuffleOptionsKeepsIndex(qq, d) ==
    LET idx == shuffleIntArray([i \in 0 .. (MAX_OPTIONS - 1) |-> i], MAX_OPTIONS, d)
    IN  [qq EXCEPT !.options = [i \in 0 .. (MAX_OPTIONS - 1) |-> qq.options[idx[i]]]]

(* lines 122-133 *)
shuffleOptions(qq, d) ==
    LET idx == shuffleIntArray([i \in 0 .. (MAX_OPTIONS - 1) |-> i], MAX_OPTIONS, d)
        hits == { i \in 0 .. (MAX_OPTIONS - 1) : idx[i] = qq.originalCorrectIndex }
        newCorrect == IF hits = {} THEN 0
                      ELSE CHOOSE i \in hits : \A j \in hits : j <= i
    IN  [qq EXCEPT !.options = [i \in 0 .. (MAX_OPTIONS - 1) |-> qq.options[idx[i]]],
                   !.correctIndex = newCorrect]

(* wrongs[] of apply5050: the indices other than correctIndex, ascending *)
RECURSIVE WrongsFrom(_, _, _)
WrongsFrom(qq, i, acc) ==
    IF i >= MAX_OPTIONS THEN acc
    ELSE WrongsFrom(qq, i + 1,
                    IF i # qq.correctIndex THEN Put(acc, Cardinality(DOMAIN acc), i) ELSE acc)

(* apply5050 without the final ordering of the pair *)
apply5050Unordered(qq, vis, d) ==
    LET w0 == WrongsFrom(qq, 0, Empty)
        wrongs == shuffleIntArray(w0, Cardinality(DOMAIN w0), d)
    IN  [visibleOptions |-> [vis EXCEPT ![0] = qq.correctIndex, ![1] = wrongs[0]],
         visibleCount |-> 2]

(* lines 135-143 *)
apply5050(qq, vis, d) ==
    LET w0 == WrongsFrom(qq, 0, Empty)
        wcount == Cardinality(DOMAIN w0)
        wrongs == shuffleIntArray(w0, wcount, d)
        v0 == qq.correctIndex
        v1 == wrongs[0]
    IN  [visibleOptions |-> IF v0 > v1
                            THEN [vis EXCEPT ![0] = v1, ![1] = v0]
                            ELSE [vis EXCEPT ![0] = v0, ![1] = v1],
         visibleCount |-> 2]

AllVisible == [i \in 0 .. (MAX_OPTIONS - 1) |-> i]

-----------------------------------------------------------------------------
(* Question banks, as loadQuestionsFromFile leaves them: correctIndex and   *)
(* originalCorrectIndex are the file's 1-based number minus one, difficulty *)
(* is the file's integer, neither is range-checked.                         *)
Question(text, opts, corr, diff) ==
    [text |-> text, options |-> [i \in 0 .. (MAX_OPTIONS - 1) |-> opts[i + 1]],
     correctIndex |-> corr - 1, originalCorrectIndex |-> corr - 1, difficulty |-> diff]

BankTwo == [i \in 0 .. 1 |->
              IF i = 0 THEN Question("qA", <<"a1", "a2", "a3", "a4">>, 2, 1)
                       ELSE Question("qB", <<"b1", "b2", "b3", "b4">>, 4, 3)]

BankOne == [i \in 0 .. 0 |-> Question("qC", <<"c1", "c2", "c3", "c4">>, 1, 2)]

Banks == {BankTwo, BankOne}

allCount == Cardinality(DOMAIN allQ)
quizCount == Cardinality(DOMAIN quizQuestions)

(* The current question, Question& q = quizQuestions[qi] *)
q == quizQuestions[qi]

-----------------------------------------------------------------------------
(* Scoring *)
Tally == [score |-> score, correctCount |-> correctCount,
          wrongCount |-> wrongCount, streak |-> streak]

Penalty(d) == IF d = 1 THEN 2 ELSE IF d = 2 THEN 3 ELSE 5

(* TimeUp with the question not counted as wrong *)
TimeUpUncounted(t, d) ==
    [t EXCEPT !.streak = 0, !.score = @ - Penalty(d)]

(* lines 489-490: the timeout branch of the polling loop *)
TimeUp(t, d) ==
    [t EXCEPT !.wrongCount = @ + 1, !.streak = 0, !.score = @ - Penalty(d)]

(* StreakBonus with the bonus kept from the threshold on *)
StreakBonusFrom(s) == IF s >= 5 THEN 15 ELSE IF s >= 3 THEN 5 ELSE 0

(* lines 552-553: the bonus for the streak a correct answer reaches *)
StreakBonus(s) == IF s = 3 THEN 5 ELSE IF s = 5 THEN 15 ELSE 0

(* Evaluate with the deduction the comments of lines 533-545 weigh for an   *)
(* unanswered question                                                     *)
EvaluateDeductsUnanswered(t, userAns, correctIndex, d) ==
    IF userAns - 1 = correctIndex
    THEN LET add == IF d = 1 THEN 10 ELSE IF d = 2 THEN 15 ELSE 20
         IN  [t EXCEPT !.score = @ + add + StreakBonus(t.streak + 1),
                       !.correctCount = @ + 1,
                       !.streak = @ + 1]
    ELSE [t EXCEPT !.wrongCount = @ + 1, !.streak = 0,
                   !.score = @ - Penalty(d)]

(* lines 529-561: evaluation of the recorded answer *)
Evaluate(t, userAns, correctIndex, d) ==
    IF userAns = 0 THEN t
    ELSE IF userAns - 1 = correctIndex
         THEN LET add == IF d = 1 THEN 10 ELSE IF d = 2 THEN 15 ELSE 20
              IN  [t EXCEPT !.score = @ + add + StreakBonus(t.streak + 1),
                            !.correctCount = @ + 1,
                            !.streak = @ + 1]
         ELSE [t EXCEPT !.wrongCount = @ + 1, !.streak = 0,
                        !.score = @ - Penalty(d)]

-----------------------------------------------------------------------------
(* Files *)
Prefix(f, n) == [i \in 0 .. (n - 1) |-> f[i]]

(* The progress file is the sequence of its lines, a line the sequence of   *)
(* its space-separated tokens; a token is an integer or a word that %d and  *)
(* stoi reject.  The player's name is a word, the timestamp is written 0.   *)
Num(n) == [num |-> TRUE, val |-> n]
Word == [num |-> FALSE, val |-> 0]

(* lines 212-223: the file is rewritten with the aggregates, the first      *)
(* qCount answers and indices, and the remaining seconds                    *)
saveProgress(r) ==
    << <<Word>>,
       <<Num(r.score), Num(r.correct), Num(r.wrong), Num(0)>>,
       [i \in 1 .. r.qCount |-> Num(r.answers[i - 1])],
       [i \in 1 .. r.qCount |-> Num(r.questionIndices[i - 1])],
       <<Num(r.remainingSecondsForCurrent)>> >>

(* The integers sscanf("%d") reads off the head of a line, token by token,  *)
(* until one is not an integer (lines 241-249, 254-260)                    *)
Scanned(line) ==
    LET n == CHOOSE k \in 0 .. Len(line) :
               /\ \A i \in 1 .. k : line[i].num
               /\ (k < Len(line) => ~line[k + 1].num)
    IN  [i \in 0 .. (n - 1) |-> line[i + 1].val]

(* lines 227-278: ok is the value returned, the other fields are r *)
loadProgress(f) ==
    IF Len(f) < 2 \/ Cardinality(DOMAIN Scanned(f[2])) < 4 \/ Len(f) < 4
    THEN [ok |-> FALSE]
    ELSE LET agg == Scanned(f[2])
             ans == Scanned(f[3])
             idx == Scanned(f[4])
             na == Cardinality(DOMAIN ans)
             ni == Cardinality(DOMAIN idx)
         IN  [ok |-> TRUE,
              score |-> agg[0], correct |-> agg[1], wrong |-> agg[2],
              answers |-> ans, questionIndices |-> idx,
              qCount |-> IF ni < na THEN ni ELSE na,
              remainingSecondsForCurrent |->
                  IF Len(f) >= 5
                  THEN IF Len(f[5]) >= 1 /\ f[5][1].num
                       THEN Max0(f[5][1].val)
                       ELSE DEFAULT_TIME_PER_QUESTION
                  ELSE DEFAULT_TIME_PER_QUESTION]

(* logSession with the score clamped as the high-score entry is *)
logSessionClamped(r) ==
    [score |-> Max0(r.score), correct |-> r.correct, wrong |-> r.wrong,
     questionIndices |-> Prefix(r.questionIndices, r.qCount),
     answers |-> Prefix(r.answers, r.qCount)]

(* logSession: the block appended to the session log *)
logSession(r) ==
    [score |-> r.score, correct |-> r.correct, wrong |-> r.wrong,
     questionIndices |-> Prefix(r.questionIndices, r.qCount),
     answers |-> Prefix(r.answers, r.qCount)]

(* Text is the sequence of its characters.  An int as operator<< writes it  *)
DigitChar(d) == <<"0", "1", "2", "3", "4", "5", "6", "7", "8", "9">>[d + 1]

RECURSIVE Decimal(_)
Decimal(n) ==
    IF n < 0 THEN <<"-">> \o Decimal(-n)
    ELSE IF n < 10 THEN <<DigitChar(n)>>
    ELSE Decimal(n \div 10) \o <<DigitChar(n % 10)>>

(* std::stoi: an optional sign, then the digits up to the first other       *)
(* character; ok is FALSE where stoi throws (no digit)                      *)
DigitValueOf(c) == CHOOSE d \in 0 .. 9 : DigitChar(d) = c
IsDigit(c) == \E d \in 0 .. 9 : DigitChar(d) = c

RECURSIVE Magnitude(_, _, _)
Magnitude(str, i, acc) ==
    IF i > Len(str) \/ ~IsDigit(str[i]) THEN acc
    ELSE Magnitude(str, i + 1, 10 * acc + DigitValueOf(str[i]))

stoi(str) ==
    LET signed == Len(str) >= 1 /\ str[1] \in {"-", "+"}
        first == IF signed THEN 2 ELSE 1
        m == Magnitude(str, first, 0)
    IN  [ok |-> Len(str) >= first /\ IsDigit(str[first]),
         val |-> IF signed /\ str[1] = "-" THEN -m ELSE m]

(* lines 176-181: the line name|score|datetime is appended *)
writeHighScore(file, entry) ==
    Append(file, entry.name \o <<"|">> \o Decimal(entry.score) \o <<"|">> \o entry.datetime)

(* line.find('|', from): the first position at or after from, 0 for npos *)
Find(line, from) ==
    LET hits == { i \in from .. Len(line) : line[i] = "|" }
    IN  IF hits = {} THEN 0 ELSE CHOOSE i \in hits : \A j \in hits : i <= j

(* lines 159-162: the lines readHighScores does not skip *)
HasTwoBars(line) ==
    /\ line # << >>
    /\ Find(line, 1) # 0
    /\ Find(line, Find(line, 1) + 1) # 0

(* lines 163-168: the entry read off a line *)
ReadEntry(line) ==
    LET p1 == Find(line, 1)
        p2 == Find(line, p1 + 1)
        sc == stoi(SubSeq(line, p1 + 1, p2 - 1))
    IN  [name |-> SubSeq(line, 1, p1 - 1),
         score |-> IF sc.ok THEN sc.val ELSE 0,
         datetime |-> SubSeq(line, p2 + 1, Len(line))]

(* lines 154-174: outScores, at most MAX_QUIZ_QUESTIONS entries *)
readHighScores(file) ==
    LET kept == SelectSeq(file, HasTwoBars)
        n == IF Len(kept) < MAX_QUIZ_QUESTIONS THEN Len(kept) ELSE MAX_QUIZ_QUESTIONS
    IN  [i \in 1 .. n |-> ReadEntry(kept[i])]

(* line 309: the name typed, "Player" if none; nowString() of lines 60-69 *)
PlayerName == <<"P">>
nowString == <<"d">>

(* A file that does not exist, or is empty; a file is the sequence of what   *)
(* was written line by line or block by block                               *)
NoFile == << >>

(* remove with the file left in place *)
removeNothing(file) == file

(* line 573: remove(saveFile.c_str()) *)
remove(file) == NoFile

(* lines 90-109 from line i of the category file on, a file being the       *)
(* sequence of its lines and a line the sequence of its characters; acc is  *)
(* outQuestions[0 .. outCount-1].  The line after a record is read and      *)
(* dropped whatever it holds (line 108).                                    *)
RECURSIVE LoadFrom(_, _, _)
LoadFrom(file, i, acc) ==
    IF i > Len(file) THEN [ok |-> Cardinality(DOMAIN acc) > 0, questions |-> acc]
    ELSE IF file[i] = << >> THEN LoadFrom(file, i + 1, acc)
    ELSE IF i + MAX_OPTIONS + 2 > Len(file) THEN [ok |-> FALSE, questions |-> acc]
    ELSE LET corr == stoi(file[i + MAX_OPTIONS + 1])
             diff == stoi(file[i + MAX_OPTIONS + 2])
             qq == Question(file[i], SubSeq(file, i + 1, i + MAX_OPTIONS), corr.val, diff.val)
             outCount == Cardinality(DOMAIN acc)
         IN  IF ~corr.ok \/ ~diff.ok THEN [ok |-> FALSE, questions |-> acc]
             ELSE LoadFrom(file, i + MAX_OPTIONS + 4,
                           IF outCount < MAX_QUESTIONS THEN Put(acc, outCount, qq) ELSE acc)

(* lines 85-112: ok is the value returned, questions the array as it is     *)
(* left; a file that cannot be opened is the empty sequence                 *)
loadQuestionsFromFile(file) ==
    IF file = << >> THEN [ok |-> FALSE, questions |-> Empty]
    ELSE LoadFrom(file, 1, Empty)

-----------------------------------------------------------------------------
(* Keys the poller can return *)
Digits == {"1", "2", "3", "4"}
LifelineKeys == {"L", "l"}
SkipKeys == {"S", "s"}
OtherKeys == {"0", "5", "x"}

(* int ans = k - '0' *)
DigitValue(k) == CASE k = "1" -> 1 [] k = "2" -> 2 [] k = "3" -> 3 [] k = "4" -> 4

(* Remaining without the floor at 0 *)
RemainingUnclamped == endTime - now

(* max(0, endTime - time(NULL)), as lines 361-362, 376-377, 386-387, 516-517 *)
Remaining == Max0(endTime - now)

(* The console input.  A byte carries ext, telling that it belongs to the   *)
(* press of an extended key; the program does not read ext.                 *)
NoKeys == [buf |-> << >>, late |-> << >>]
NoKey == -1

(* lines 282-292: key is what getNonBlockingKey returns (NoKey for '\0'),   *)
(* kbd the console input it leaves                                          *)
getNonBlockingKey(k) ==
    IF k.buf = << >> THEN [key |-> NoKey, kbd |-> k]
    ELSE LET ch == Head(k.buf).byte
             rest == Tail(k.buf)
         IN  IF ch = 0 \/ ch = 224
             THEN [key |-> NoKey,
                   kbd |-> [k EXCEPT !.buf = IF rest # << >> THEN Tail(rest) ELSE rest]]
             ELSE [key |-> ch, kbd |-> [k EXCEPT !.buf = rest]]

(* (char)ch as the branches of lines 371, 384 and 461 compare it: '1'..'4', *)
(* 'L', 'l', 'S', 's', and "x" for any other character                      *)
CharOf(ch) ==
    CASE ch = 49 -> "1" [] ch = 50 -> "2" [] ch = 51 -> "3" [] ch = 52 -> "4"
      [] ch = 76 -> "L" [] ch = 108 -> "l" [] ch = 83 -> "S" [] ch = 115 -> "s"
      [] OTHER -> "x"

-----------------------------------------------------------------------------
(* line 325: QuizResult result as startQuiz sets it up *)
NewResult ==
    [score |-> 0, correct |-> 0, wrong |-> 0, questionIndices |-> Empty,
     answers |-> Empty, qCount |-> 0, remainingSecondsForCurrent |-> 0]

Init ==
    /\ allQ \in Banks
    /\ quizQuestions = Empty
    /\ qi = 0
    /\ lif_5050 = TRUE /\ lif_skip = TRUE /\ lif_replace = TRUE /\ lif_extra = TRUE
    /\ score = 0 /\ correctCount = 0 /\ wrongCount = 0 /\ streak = 0
    /\ result = NewResult
    /\ visibleOptions = AllVisible /\ visibleCount = MAX_OPTIONS
    /\ remainingSeconds = DEFAULT_TIME_PER_QUESTION
    /\ endTime = now
    /\ pc = "start"
    /\ saveFile = NoFile /\ highScoreFile = <<>> /\ logFile = <<>>
    /\ outcomes = Empty
    /\ categoryFile = NoFile
    /\ fileOps = << >>
    /\ kbd = NoKeys

(* lines 330-347: the head of the for loop, for slot k *)
Enter(r, k) ==
    LET rem == IF r.remainingSecondsForCurrent > 0
               THEN r.remainingSecondsForCurrent ELSE DEFAULT_TIME_PER_QUESTION
    IN  [result |-> [r EXCEPT !.questionIndices = Put(@, r.qCount, k),
                              !.answers = Put(@, r.qCount, 0),
                              !.remainingSecondsForCurrent = 0],
         remainingSeconds |-> rem,
         endTime |-> now + rem]

(* lines 312-314: the pool of bank indices for difficulty diff *)
RECURSIVE MatchFrom(_, _, _)
MatchFrom(diff, i, acc) ==
    IF i >= allCount THEN acc
    ELSE MatchFrom(diff, i + 1,
                   IF allQ[i].difficulty = diff THEN Put(acc, Cardinality(DOMAIN acc), i) ELSE acc)

(* Pool with the fallback taken at ten matches too *)
PoolFallsBackAtTen(diff) ==
    LET m == MatchFrom(diff, 0, Empty)
    IN  IF Cardinality(DOMAIN m) <= QUIZ_LENGTH THEN [i \in 0 .. (allCount - 1) |-> i] ELSE m

Pool(diff) ==
    LET m == MatchFrom(diff, 0, Empty)
    IN  IF Cardinality(DOMAIN m) < QUIZ_LENGTH THEN [i \in 0 .. (allCount - 1) |-> i] ELSE m

(* lines 300-347 for the difficulty diff read at line 310: selection,      *)
(* lifelines, result, and the first question.  D is the set of draws the   *)
(* option shuffles take, P[n] the set of draws the shuffle of a pool of n  *)
(* indices takes.  The shuffle of qIndices (lines 305-307) is never read.  *)
StartQuizAt(D, P, diff) ==
    /\ pc \in {"start", "resumed"}
    /\ LET pool0 == Pool(diff)
           poolCount == Cardinality(DOMAIN pool0)
       IN  \E dp \in P[poolCount] :
             LET pool == shuffleIntArray(pool0, poolCount, dp)
                 n == IF poolCount > QUIZ_LENGTH THEN QUIZ_LENGTH ELSE poolCount
             IN  \E dq \in [0 .. (n - 1) -> D] :
                   LET e == Enter(NewResult, 0)
                   IN  /\ quizQuestions' = [i \in 0 .. (n - 1) |-> shuffleOptions(allQ[pool[i]], dq[i])]
                       /\ result' = e.result
                       /\ remainingSeconds' = e.remainingSeconds
                       /\ endTime' = e.endTime
    /\ qi' = 0
    /\ lif_5050' = TRUE /\ lif_skip' = TRUE /\ lif_replace' = TRUE /\ lif_extra' = TRUE
    /\ score' = 0 /\ correctCount' = 0 /\ wrongCount' = 0 /\ streak' = 0
    /\ visibleOptions' = AllVisible /\ visibleCount' = MAX_OPTIONS
    /\ pc' = "running"
    /\ UNCHANGED <<allQ, categoryFile, saveFile, highScoreFile, logFile, outcomes, fileOps, kbd>>

(* line 310: getIntInRange(1, 3) *)
StartQuizFrom(D, P) == \E diff \in 1 .. 3 : StartQuizAt(D, P, diff)

(* startQuiz with every draw of the pool shuffle *)
StartQuiz(D) == StartQuizFrom(D, [n \in Nat |-> Draws(n)])

(* Time passes, while the loop polls or the lifeline prompt waits *)
Tick ==
    /\ pc \in {"running", "menu"}
    /\ endTime - now > -MaxLate
    /\ endTime' = endTime - TickStep
    /\ UNCHANGED <<allQ, categoryFile, quizQuestions, qi, lif_5050, lif_skip, lif_replace, lif_extra,
                   score, correctCount, wrongCount, streak, result, visibleOptions,
                   visibleCount, remainingSeconds, pc, saveFile, highScoreFile,
                   logFile, outcomes, fileOps, kbd>>

(* Autosaved with the seconds the loop stored left in result *)
AutosavedKeepsSeconds(r, t) ==
    [r EXCEPT !.score = t.score, !.correct = t.correctCount, !.wrong = t.wrongCount]

(* lines 513-522 once questionCompleted is set: result as the autosave of   *)
(* line 523 writes it                                                       *)
Autosaved(r, t) ==
    [r EXCEPT !.score = t.score, !.correct = t.correctCount,
              !.wrong = t.wrongCount, !.remainingSecondsForCurrent = 0]

(* lines 512-573: what follows the polling loop once questionCompleted is   *)
(* set: the autosave, the evaluation, the snapshot, and then the next       *)
(* question or the end of the session.  r, t and rs are result, the tally   *)
(* and remainingSeconds as the loop left them.  The file written at line    *)
(* 523 (r1) is rewritten at line 565 (r2) before anything can read it;      *)
(* at the end of the session lines 571-573 follow the write of line 565.    *)
Complete(r, t, rs, oc) ==
    LET r1 == Autosaved(r, t)
        userAns == r1.answers[r1.qCount]
        t2 == Evaluate(t, userAns, q.correctIndex, q.difficulty)
        r2 == [r1 EXCEPT !.score = t2.score, !.correct = t2.correctCount,
                         !.wrong = t2.wrongCount, !.qCount = @ + 1]
    IN  /\ correctCount' = t2.correctCount
        /\ wrongCount' = t2.wrongCount
        /\ streak' = t2.streak
        /\ outcomes' = Put(outcomes, r.qCount, oc)
        /\ qi' = qi + 1
        /\ IF qi + 1 < quizCount
           THEN LET e == Enter(r2, qi + 1)
                IN  /\ score' = t2.score
                    /\ result' = e.result
                    /\ remainingSeconds' = e.remainingSeconds
                    /\ endTime' = e.endTime
                    /\ visibleOptions' = AllVisible /\ visibleCount' = MAX_OPTIONS
                    /\ saveFile' = saveProgress(r2)
                    /\ fileOps' = <<"saveProgress", "saveProgress">>
                    /\ pc' = "running"
                    /\ UNCHANGED <<highScoreFile, logFile>>
           ELSE /\ score' = Max0(t2.score)
                /\ result' = r2
                /\ highScoreFile' = writeHighScore(highScoreFile,
                                       [name |-> PlayerName, score |-> Max0(t2.score),
                                        datetime |-> nowString])
                /\ logFile' = Append(logFile, logSession(r2))
                /\ saveFile' = remove(saveProgress(r2))
                /\ fileOps' = <<"saveProgress", "saveProgress", "writeHighScore",
                                "logSession", "remove">>
                /\ remainingSeconds' = rs
                /\ pc' = "done"
                /\ UNCHANGED <<endTime, visibleOptions, visibleCount>>

(* lines 371-383: the branch of a digit *)
Answer(k) ==
    /\ Complete([result EXCEPT !.answers = Put(@, result.qCount, DigitValue(k)),
                               !.remainingSecondsForCurrent = Remaining],
                Tally, Remaining, "Answered")
    /\ UNCHANGED <<allQ, categoryFile, quizQuestions, lif_5050, lif_skip, lif_replace, lif_extra>>

(* PollAnswer with the expiry checked before the key *)
PollAnswerAfterExpiry(k) ==
    /\ pc = "running"
    /\ k \in Digits
    /\ IF now >= endTime
       THEN /\ Complete([result EXCEPT !.answers = Put(@, result.qCount, 0),
                                       !.remainingSecondsForCurrent = 0],
                        TimeUp(Tally, q.difficulty), remainingSeconds, "TimedOut")
            /\ UNCHANGED <<allQ, categoryFile, quizQuestions, lif_5050, lif_skip, lif_replace, lif_extra>>
       ELSE Answer(k)
    /\ UNCHANGED kbd

(* lines 369-383: the poller returned a digit, which answers the question *)
PollAnswer(k) ==
    /\ pc = "running"
    /\ k \in Digits
    /\ Answer(k)
    /\ UNCHANGED kbd

(* lines 384-396: the branch of L, up to the prompt of the menu *)
OpenMenu ==
    /\ remainingSeconds' = Remaining
    /\ result' = [result EXCEPT !.remainingSecondsForCurrent = Remaining]
    /\ pc' = "menu"
    /\ UNCHANGED <<allQ, categoryFile, quizQuestions, qi, lif_5050, lif_skip, lif_replace, lif_extra,
                   score, correctCount, wrongCount, streak, visibleOptions,
                   visibleCount, endTime, saveFile, highScoreFile, logFile, outcomes,
                   fileOps>>

(* lines 369-396: L snapshots the remaining seconds and opens the menu *)
PollLifeline(k) ==
    /\ pc = "running"
    /\ k \in LifelineKeys
    /\ OpenMenu
    /\ UNCHANGED kbd

(* TimeoutCheck with the expiry never noticed *)
TimeoutCheckNever == UNCHANGED quizVars

(* lines 479-494: the timeout check that ends an iteration no branch left *)
TimeoutCheck ==
    IF now >= endTime
    THEN /\ Complete([result EXCEPT !.answers = Put(@, result.qCount, 0),
                                    !.remainingSecondsForCurrent = 0],
                     TimeUp(Tally, q.difficulty), remainingSeconds, "TimedOut")
         /\ UNCHANGED <<allQ, categoryFile, quizQuestions, lif_5050, lif_skip, lif_replace, lif_extra>>
    ELSE UNCHANGED quizVars

(* SkipQuestion with the lifeline left available *)
SkipQuestionKeeps ==
    /\ UNCHANGED lif_skip
    /\ Complete([result EXCEPT !.answers = Put(@, result.qCount, 0),
                               !.remainingSecondsForCurrent = 0],
                Tally, remainingSeconds, "Skipped")
    /\ UNCHANGED <<allQ, categoryFile, quizQuestions, lif_5050, lif_replace, lif_extra>>

(* SkipQuestion with the deduction of a timeout (lines 489-490) *)
SkipQuestionCounted ==
    /\ lif_skip' = FALSE
    /\ Complete([result EXCEPT !.answers = Put(@, result.qCount, 0),
                               !.remainingSecondsForCurrent = 0],
                TimeUp(Tally, q.difficulty), remainingSeconds, "Skipped")
    /\ UNCHANGED <<allQ, categoryFile, quizQuestions, lif_5050, lif_replace, lif_extra>>

(* lines 408-419 and 463-471: the Skip lifeline ends the question *)
SkipQuestion ==
    /\ lif_skip' = FALSE
    /\ Complete([result EXCEPT !.answers = Put(@, result.qCount, 0),
                               !.remainingSecondsForCurrent = 0],
                Tally, remainingSeconds, "Skipped")
    /\ UNCHANGED <<allQ, categoryFile, quizQuestions, lif_5050, lif_replace, lif_extra>>

(* lines 461-475: the branch of S, the quick skip; once used it only prints *)
QuickSkip == IF lif_skip THEN SkipQuestion ELSE TimeoutCheck

(* lines 369-370, 461-494: the poller returned S *)
PollSkip(k) ==
    /\ pc = "running"
    /\ k \in SkipKeys
    /\ QuickSkip
    /\ UNCHANGED kbd

(* lines 369-370, 476-494: a key the loop ignores *)
PollIgnored(k) ==
    /\ pc = "running"
    /\ k \in OtherKeys
    /\ TimeoutCheck
    /\ UNCHANGED kbd

(* lines 369-370, 479-494: the poller returned '\0' *)
PollNone ==
    /\ pc = "running"
    /\ TimeoutCheck
    /\ UNCHANGED kbd

(* lines 512-523: the autosave when the menu returns to the loop; es is     *)
(* endTime as the menu branch left it                                       *)
Resume(es) ==
    /\ endTime' = es
    /\ remainingSeconds' = Max0(es - now)
    /\ result' = [result EXCEPT !.score = score, !.correct = correctCount,
                                !.wrong = wrongCount,
                                !.remainingSecondsForCurrent = Max0(es - now)]
    /\ saveFile' = saveProgress(result')
    /\ fileOps' = <<"saveProgress">>
    /\ pc' = "running"
    /\ UNCHANGED <<allQ, categoryFile, qi, score, correctCount, wrongCount, streak,
                   highScoreFile, logFile, outcomes>>

(* lines 397-399: 0 cancels *)
MenuCancel ==
    /\ pc = "menu"
    /\ Resume(endTime)
    /\ UNCHANGED <<quizQuestions, lif_5050, lif_skip, lif_replace, lif_extra,
                   visibleOptions, visibleCount, kbd>>

(* lines 400-407: 1 is 50/50 *)
MenuFiftyFifty ==
    /\ pc = "menu"
    /\ IF ~lif_5050
       THEN UNCHANGED <<lif_5050, visibleOptions, visibleCount>>
       ELSE /\ lif_5050' = FALSE
            /\ \E d \in Draws(MAX_OPTIONS - 1) :
                 LET v == apply5050(q, visibleOptions, d)
                 IN  /\ visibleOptions' = v.visibleOptions
                     /\ visibleCount' = v.visibleCount
    /\ Resume(endTime)
    /\ UNCHANGED <<quizQuestions, lif_skip, lif_replace, lif_extra, kbd>>

(* lines 408-419: 2 is Skip *)
MenuSkip ==
    /\ pc = "menu"
    /\ IF ~lif_skip
       THEN /\ Resume(endTime)
            /\ UNCHANGED <<quizQuestions, lif_5050, lif_skip, lif_replace, lif_extra,
                           visibleOptions, visibleCount>>
       ELSE SkipQuestion
    /\ UNCHANGED kbd

(* lines 425-437: the first attempt whose draw r[a] = rand() % allCount has *)
(* a text other than the current one, or none                               *)
ReplaceHits(r) == { a \in DOMAIN r : allQ[r[a]].text # q.text }

(* lines 420-442: 3 is Replace; D as in StartQuiz *)
MenuReplace(D) ==
    /\ pc = "menu"
    /\ IF ~lif_replace
       THEN /\ Resume(endTime)
            /\ UNCHANGED <<quizQuestions, lif_replace, visibleOptions, visibleCount>>
       ELSE /\ lif_replace' = FALSE
            /\ \E r \in [0 .. (allCount - 1) -> 0 .. (allCount - 1)] :
                 LET hits == ReplaceHits(r)
                 IN  IF hits = {}
                     THEN UNCHANGED <<quizQuestions, visibleOptions, visibleCount>>
                     ELSE LET a == CHOOSE x \in hits : \A y \in hits : x <= y
                          IN  \E d \in D :
                                /\ quizQuestions' = [quizQuestions EXCEPT
                                                       ![qi] = shuffleOptions(allQ[r[a]], d)]
                                /\ visibleOptions' = AllVisible
                                /\ visibleCount' = MAX_OPTIONS
            /\ Resume(now + remainingSeconds)
    /\ UNCHANGED <<lif_5050, lif_skip, lif_extra, kbd>>

(* MenuExtraTime without the refusal at zero seconds *)
MenuExtraTimeNoRefusal ==
    /\ pc = "menu"
    /\ IF ~lif_extra
       THEN /\ Resume(endTime)
            /\ UNCHANGED lif_extra
       ELSE /\ lif_extra' = FALSE
            /\ Resume(now + (remainingSeconds + EXTRA_TIME_AMOUNT))
    /\ UNCHANGED <<quizQuestions, lif_5050, lif_skip, lif_replace,
                   visibleOptions, visibleCount, kbd>>

(* lines 443-456: 4 is ExtraTime *)
MenuExtraTime ==
    /\ pc = "menu"
    /\ IF ~lif_extra
       THEN /\ Resume(endTime)
            /\ UNCHANGED lif_extra
       ELSE IF remainingSeconds <= 0
            THEN /\ Resume(endTime)
                 /\ UNCHANGED lif_extra
            ELSE /\ lif_extra' = FALSE
                 /\ Resume(now + (remainingSeconds + EXTRA_TIME_AMOUNT))
    /\ UNCHANGED <<quizQuestions, lif_5050, lif_skip, lif_replace,
                   visibleOptions, visibleCount, kbd>>

Next ==
    \/ StartQuiz(QuizDraws)
    \/ Tick
    \/ \E k \in Digits : PollAnswer(k)
    \/ \E k \in LifelineKeys : PollLifeline(k)
    \/ \E k \in SkipKeys : PollSkip(k)
    \/ \E k \in OtherKeys : PollIgnored(k)
    \/ PollNone
    \/ MenuCancel
    \/ MenuFiftyFifty
    \/ MenuSkip
    \/ MenuReplace(QuizDraws)
    \/ MenuExtraTime

Spec == Init /\ [][Next]_vars

-----------------------------------------------------------------------------
(* The option shuffle under every draw of rand(): sessions in which no time *)
(* passes and the player only skips or replaces, over banks that include a  *)
(* question whose correct-option line is out of range                       *)
BankOdd == [i \in 0 .. 1 |->
              IF i = 0 THEN Question("qE", <<"e1", "e2", "e3", "e4">>, 5, 1)
                       ELSE Question("qF", <<"f1", "f2", "f2", "f4">>, 3, 2)]

InitShuffle ==
    /\ allQ \in Banks \cup {BankOdd}
    /\ quizQuestions = Empty
    /\ qi = 0
    /\ lif_5050 = TRUE /\ lif_skip = TRUE /\ lif_replace = TRUE /\ lif_extra = TRUE
    /\ score = 0 /\ correctCount = 0 /\ wrongCount = 0 /\ streak = 0
    /\ result = NewResult
    /\ visibleOptions = AllVisible /\ visibleCount = MAX_OPTIONS
    /\ remainingSeconds = DEFAULT_TIME_PER_QUESTION
    /\ endTime = now
    /\ pc = "start"
    /\ saveFile = NoFile /\ highScoreFile = <<>> /\ logFile = <<>>
    /\ outcomes = Empty
    /\ categoryFile = NoFile
    /\ fileOps = << >>
    /\ kbd = NoKeys

NextShuffle ==
    \/ StartQuiz(OptionDraws)
    \/ \E k \in LifelineKeys : PollLifeline(k)
    \/ \E k \in SkipKeys : PollSkip(k)
    \/ MenuReplace(OptionDraws)

SpecShuffle == InitShuffle /\ [][NextShuffle]_vars

-----------------------------------------------------------------------------
(* The scoring of lines 484-490 and 529-561 as a fold over the outcomes of  *)
(* up to MaxScored questions of one difficulty                              *)
ScoringBank(d) == [i \in 0 .. 0 |-> Question("qD", <<"d1", "d2", "d3", "d4">>, 1, d)]

InitScoring ==
    /\ \E d \in 1 .. 3 : allQ = ScoringBank(d)
    /\ quizQuestions = allQ
    /\ qi = 0
    /\ lif_5050 = TRUE /\ lif_skip = TRUE /\ lif_replace = TRUE /\ lif_extra = TRUE
    /\ score = 0 /\ correctCount = 0 /\ wrongCount = 0 /\ streak = 0
    /\ result = NewResult
    /\ visibleOptions = AllVisible /\ visibleCount = MAX_OPTIONS
    /\ remainingSeconds = DEFAULT_TIME_PER_QUESTION
    /\ endTime = now
    /\ pc = "scoring"
    /\ saveFile = NoFile /\ highScoreFile = <<>> /\ logFile = <<>>
    /\ outcomes = Empty
    /\ categoryFile = NoFile
    /\ fileOps = << >>
    /\ kbd = NoKeys

(* One question's outcome folded into the tally: the timeout branch if the  *)
(* loop timed out, then the evaluation of the recorded answer               *)
ScoreQuestion(oc, ans) ==
    /\ pc = "scoring"
    /\ result.qCount < MaxScored
    /\ LET t1 == IF oc = "TimedOut" THEN TimeUp(Tally, q.difficulty) ELSE Tally
           userAns == IF oc = "Answered" THEN ans ELSE 0
           t2 == Evaluate(t1, userAns, q.correctIndex, q.difficulty)
       IN  /\ score' = t2.score
           /\ correctCount' = t2.correctCount
           /\ wrongCount' = t2.wrongCount
           /\ streak' = t2.streak
           /\ result' = [result EXCEPT !.score = t2.score, !.correct = t2.correctCount,
                                       !.wrong = t2.wrongCount, !.qCount = @ + 1]
    /\ UNCHANGED <<allQ, categoryFile, quizQuestions, qi, lif_5050, lif_skip, lif_replace, lif_extra,
                   visibleOptions, visibleCount, remainingSeconds, endTime, pc,
                   saveFile, highScoreFile, logFile, outcomes, fileOps, kbd>>

NextScoring ==
    \/ \E ans \in 1 .. MAX_OPTIONS : ScoreQuestion("Answered", ans)
    \/ ScoreQuestion("TimedOut", 0)
    \/ ScoreQuestion("Skipped", 0)

SpecScoring == InitScoring /\ [][NextScoring]_vars

-----------------------------------------------------------------------------
(* The selection of lines 312-319 over banks longer than a quiz.  A pool    *)
(* of up to MAX_OPTIONS indices is shuffled with every draw; in a longer    *)
(* pool the first DrawnCells calls of rand() (the top cells) return 0, the  *)
(* middle or the cell itself, and the later calls move nothing.            *)
PoolDraws(n) ==
    IF n <= MAX_OPTIONS THEN Draws(n)
    ELSE { [i \in 1 .. (n - 1) |-> IF i >= n - DrawnCells THEN c[i] ELSE i] :
             c \in { c \in [(n - DrawnCells) .. (n - 1) -> 0 .. (n - 1)] :
                       \A i \in (n - DrawnCells) .. (n - 1) : c[i] \in {0, i \div 2, i} } }

(* The one draw under which shuffleIntArray moves nothing, for n cells and  *)
(* for the four options                                                    *)
Still(n) == { [i \in 1 .. (n - 1) |-> i] }
StillDraws == Still(MAX_OPTIONS)

Names == <<"t0", "t1", "t2", "t3", "t4", "t5", "t6", "t7", "t8", "t9", "t10", "t11">>

(* Twelve questions, ten of difficulty 1 and two (cells 5 and 11) of 3 *)
BankTwelve == [i \in 0 .. 11 |->
                 Question(Names[i + 1], <<"o1", "o2", "o3", "o4">>, (i % 4) + 1,
                          IF i % 6 = 5 THEN 3 ELSE 1)]

(* Eleven questions of difficulty 2 *)
BankEleven == [i \in 0 .. 10 |->
                 Question(Names[i + 1], <<"o1", "o2", "o3", "o4">>, (i % 4) + 1, 2)]

InitSelect ==
    /\ allQ \in Banks \cup {BankTwelve, BankEleven}
    /\ quizQuestions = Empty
    /\ qi = 0
    /\ lif_5050 = TRUE /\ lif_skip = TRUE /\ lif_replace = TRUE /\ lif_extra = TRUE
    /\ score = 0 /\ correctCount = 0 /\ wrongCount = 0 /\ streak = 0
    /\ result = NewResult
    /\ visibleOptions = AllVisible /\ visibleCount = MAX_OPTIONS
    /\ remainingSeconds = DEFAULT_TIME_PER_QUESTION
    /\ endTime = now
    /\ pc = "start"
    /\ saveFile = NoFile /\ highScoreFile = <<>> /\ logFile = <<>>
    /\ outcomes = Empty
    /\ categoryFile = NoFile
    /\ fileOps = << >>
    /\ kbd = NoKeys

NextSelect == StartQuizFrom(StillDraws, [n \in Nat |-> PoolDraws(n)])

SpecSelect == InitSelect /\ [][NextSelect]_vars

-----------------------------------------------------------------------------
(* A session of ten questions of difficulty 3, asked in the order of the    *)
(* bank with their options in place: each question is left to time out, is  *)
(* answered 1 (right for cells 0, 4 and 8), or has its menu opened and      *)
(* cancelled.                                                               *)
BankTen == [i \in 0 .. 9 |->
              Question(Names[i + 1], <<"o1", "o2", "o3", "o4">>, (i % 4) + 1, 3)]

InitTen ==
    /\ allQ = BankTen
    /\ quizQuestions = Empty
    /\ qi = 0
    /\ lif_5050 = TRUE /\ lif_skip = TRUE /\ lif_replace = TRUE /\ lif_extra = TRUE
    /\ score = 0 /\ correctCount = 0 /\ wrongCount = 0 /\ streak = 0
    /\ result = NewResult
    /\ visibleOptions = AllVisible /\ visibleCount = MAX_OPTIONS
    /\ remainingSeconds = DEFAULT_TIME_PER_QUESTION
    /\ endTime = now
    /\ pc = "start"
    /\ saveFile = NoFile /\ highScoreFile = <<>> /\ logFile = <<>>
    /\ outcomes = Empty
    /\ categoryFile = NoFile
    /\ fileOps = << >>
    /\ kbd = NoKeys

NextTen ==
    \/ StartQuizAt(StillDraws, [n \in Nat |-> Still(n)], 3)
    \/ Tick
    \/ PollAnswer("1")
    \/ PollLifeline("L")
    \/ PollNone
    \/ MenuCancel

SpecTen == InitTen /\ [][NextTen]_vars

-----------------------------------------------------------------------------
(* Resume.  The process is killed while a question is asked: what startQuiz *)
(* held in memory is gone, the files stay, and the program is run again.    *)
Kill ==
    /\ pc \in {"running", "menu"}
    /\ quizQuestions' = Empty
    /\ qi' = 0
    /\ lif_5050' = TRUE /\ lif_skip' = TRUE /\ lif_replace' = TRUE /\ lif_extra' = TRUE
    /\ score' = 0 /\ correctCount' = 0 /\ wrongCount' = 0 /\ streak' = 0
    /\ result' = NewResult
    /\ visibleOptions' = AllVisible /\ visibleCount' = MAX_OPTIONS
    /\ remainingSeconds' = DEFAULT_TIME_PER_QUESTION
    /\ endTime' = now
    /\ pc' = "start"
    /\ outcomes' = Empty
    /\ UNCHANGED <<allQ, categoryFile, saveFile, highScoreFile, logFile, fileOps, kbd>>

(* lines 611-646: choice 3 of main's menu.  QuizResult r is filled by       *)
(* loadProgress, printed, and dropped when the branch returns to the menu;  *)
(* startQuiz is not called.                                                 *)
MainResume ==
    /\ pc \in {"start", "resumed"}
    /\ pc' = IF loadProgress(saveFile).ok THEN "resumed" ELSE "start"
    /\ UNCHANGED <<allQ, categoryFile, quizQuestions, qi, lif_5050, lif_skip, lif_replace, lif_extra,
                   score, correctCount, wrongCount, streak, result, visibleOptions,
                   visibleCount, remainingSeconds, endTime, saveFile, highScoreFile,
                   logFile, outcomes, fileOps, kbd>>

NextResume ==
    \/ StartQuiz(StillDraws)
    \/ Tick
    \/ \E k \in Digits : PollAnswer(k)
    \/ PollLifeline("L")
    \/ PollNone
    \/ MenuCancel
    \/ Kill
    \/ MainResume

SpecResume == Init /\ [][NextResume]_vars

-----------------------------------------------------------------------------
(* loadProgress over progress files of up to MaxLines lines, written by     *)
(* anyone: after the name, each line is empty, holds integers, or has a     *)
(* word where an integer should be.                                         *)
LinesTried ==
    { << >>, <<Num(2)>>, <<Num(-3)>>, <<Word>>, <<Num(2), Word>>,
      <<Num(1), Num(0), Num(1), Num(0)>>, <<Num(1), Num(0), Num(1), Word>> }

FilesTried ==
    UNION { { f \in [1 .. n -> LinesTried \cup {<<Word>>}] :
                /\ \A i \in 1 .. n : i = 1 => f[i] = <<Word>>
                /\ \A i \in 2 .. n : f[i] \in LinesTried } : n \in 0 .. MaxLines }

InitLoad ==
    /\ allQ \in Banks
    /\ quizQuestions = Empty
    /\ qi = 0
    /\ lif_5050 = TRUE /\ lif_skip = TRUE /\ lif_replace = TRUE /\ lif_extra = TRUE
    /\ score = 0 /\ correctCount = 0 /\ wrongCount = 0 /\ streak = 0
    /\ result = NewResult
    /\ visibleOptions = AllVisible /\ visibleCount = MAX_OPTIONS
    /\ remainingSeconds = DEFAULT_TIME_PER_QUESTION
    /\ endTime = now
    /\ pc = "start"
    /\ saveFile \in FilesTried
    /\ highScoreFile = <<>> /\ logFile = <<>>
    /\ outcomes = Empty
    /\ categoryFile = NoFile
    /\ fileOps = << >>
    /\ kbd = NoKeys

NextLoad == MainResume

SpecLoad == InitLoad /\ [][NextLoad]_vars

-----------------------------------------------------------------------------
(* writeHighScore and readHighScores on their own: up to MaxWrites entries  *)
(* are written to an empty file.  A name is what getline read at line 309,  *)
(* any characters but the end of line.                                      *)
EntriesTried ==
    [name : { << >>, <<"a">>, <<"P">>, <<"a", "|", "b">> },
     score : {0, 7, 120, -5},
     datetime : { <<"d">>, <<"d", "|", "e">> }]

InitScores ==
    /\ allQ \in Banks
    /\ quizQuestions = Empty
    /\ qi = 0
    /\ lif_5050 = TRUE /\ lif_skip = TRUE /\ lif_replace = TRUE /\ lif_extra = TRUE
    /\ score = 0 /\ correctCount = 0 /\ wrongCount = 0 /\ streak = 0
    /\ result = NewResult
    /\ visibleOptions = AllVisible /\ visibleCount = MAX_OPTIONS
    /\ remainingSeconds = DEFAULT_TIME_PER_QUESTION
    /\ endTime = now
    /\ pc = "scores"
    /\ saveFile = NoFile /\ highScoreFile = <<>> /\ logFile = <<>>
    /\ outcomes = Empty
    /\ categoryFile = NoFile
    /\ fileOps = << >>
    /\ kbd = NoKeys

WriteScore(entry) ==
    /\ pc = "scores"
    /\ Len(highScoreFile) < MaxWrites
    /\ highScoreFile' = writeHighScore(highScoreFile, entry)
    /\ fileOps' = <<"writeHighScore">>
    /\ UNCHANGED <<allQ, categoryFile, quizQuestions, qi, lif_5050, lif_skip, lif_replace, lif_extra,
                   score, correctCount, wrongCount, streak, result, visibleOptions,
                   visibleCount, remainingSeconds, endTime, pc, saveFile, logFile,
                   outcomes, kbd>>

NextScores == \E entry \in EntriesTried : WriteScore(entry)

SpecScores == InitScores /\ [][NextScores]_vars

-----------------------------------------------------------------------------
(* The polling loop with its poller: keys are pressed, their bytes reach    *)
(* the console input, and each iteration calls getNonBlockingKey.  An       *)
(* ordinary key is one byte; an extended key is a prefix byte (0 or 224)    *)
(* and a scan-code byte, which reach the input together or one after the    *)
(* other (whether _kbhit sees the second byte when the first is read is     *)
(* the console's affair, not the program's).                                *)
Byte(b) == [byte |-> b, ext |-> FALSE]
ExtByte(b) == [byte |-> b, ext |-> TRUE]

(* '1', 'L', 'x'; Delete (224, 83), Alt+N (0, 49), the up arrow (224, 72) *)
KeysTried ==
    { <<Byte(49)>>, <<Byte(76)>>, <<Byte(120)>>,
      <<ExtByte(224), ExtByte(83)>>, <<ExtByte(0), ExtByte(49)>>,
      <<ExtByte(224), ExtByte(72)>> }

(* A key is pressed; its first n bytes are in the input at once *)
Press(key, n) ==
    /\ pc = "running"
    /\ kbd.late = << >>
    /\ Len(kbd.buf) + Len(key) <= MaxPending
    /\ n \in 1 .. Len(key)
    /\ kbd' = [buf |-> kbd.buf \o SubSeq(key, 1, n), late |-> SubSeq(key, n + 1, Len(key))]
    /\ UNCHANGED quizVars

(* The rest of the key press reaches the input *)
Arrive ==
    /\ kbd.late # << >>
    /\ kbd' = [buf |-> kbd.buf \o kbd.late, late |-> << >>]
    /\ UNCHANGED quizVars

(* lines 366-494: one iteration of the polling loop *)
PollKey ==
    /\ pc = "running"
    /\ LET g == getNonBlockingKey(kbd)
           c == CharOf(g.key)
       IN  /\ kbd' = g.kbd
           /\ IF g.key = NoKey THEN TimeoutCheck
              ELSE IF c \in Digits THEN Answer(c)
              ELSE IF c \in LifelineKeys THEN OpenMenu
              ELSE IF c \in SkipKeys THEN QuickSkip
              ELSE TimeoutCheck

NextKeys ==
    \/ StartQuiz(StillDraws)
    \/ Tick
    \/ \E key \in KeysTried : \E n \in 1 .. 2 : Press(key, n)
    \/ Arrive
    \/ PollKey
    \/ MenuCancel

SpecKeys == Init /\ [][NextKeys]_vars

-----------------------------------------------------------------------------
(* The session under its scheduling: the clock advances, the polling loop   *)
(* of lines 366-510 keeps iterating (so an iteration in which no key is     *)
(* waiting and the time is up does run, unless keys keep the loop from it), *)
(* getIntInRange returns once the player has typed a valid choice, and      *)
(* startQuiz runs once called.  No key press is ever forced.  The option    *)
(* shuffles move nothing.                                                   *)
Poll ==
    \/ \E k \in Digits : PollAnswer(k)
    \/ \E k \in LifelineKeys : PollLifeline(k)
    \/ \E k \in SkipKeys : PollSkip(k)
    \/ \E k \in OtherKeys : PollIgnored(k)
    \/ PollNone

MenuChoice ==
    \/ MenuCancel
    \/ MenuFiftyFifty
    \/ MenuSkip
    \/ MenuReplace(StillDraws)
    \/ MenuExtraTime

NextLive ==
    \/ StartQuiz(StillDraws)
    \/ Tick
    \/ Poll
    \/ MenuChoice

SpecLive ==
    /\ Init /\ [][NextLive]_vars
    /\ WF_vars(StartQuiz(StillDraws))
    /\ WF_vars(Tick)
    /\ WF_vars(PollNone)
    /\ WF_vars(MenuChoice)

-----------------------------------------------------------------------------
(* Vocabulary of the properties *)
InQuestion == pc \in {"running", "menu"}

(* This step completes a question (result.qCount++ of line 564) as oc *)
Completes(oc) ==
    /\ result'.qCount = result.qCount + 1
    /\ outcomes'[result.qCount] = oc

SkippedCount == Cardinality({ i \in DOMAIN outcomes : outcomes[i] = "Skipped" })

(* C1: every lifeline is available when the quiz starts, never becomes      *)
(* available again once consumed (so it is consumed at most once), and at   *)
(* most one question of the session completes as Skipped, whether by S or   *)
(* by option 2 of the menu.                                                 *)
C1_LifelinesOnce ==
    /\ [][(pc = "start" /\ pc' = "running")
            => (lif_5050' /\ lif_skip' /\ lif_replace' /\ lif_extra')]_vars
    /\ [][pc # "start"
            => /\ lif_5050' => lif_5050
               /\ lif_skip' => lif_skip
               /\ lif_replace' => lif_replace
               /\ lif_extra' => lif_extra]_vars
    /\ [][Completes("Skipped") => (lif_skip /\ ~lif_skip')]_vars
    /\ [](SkippedCount <= 1)

C1_Witness ==
    /\ pc = "done"
    /\ ~lif_5050 /\ ~lif_skip /\ ~lif_replace /\ ~lif_extra
    /\ SkippedCount = 1
    /\ Cardinality(DOMAIN outcomes) = 2

(* The table of section 4.5, written out *)
TableGain(d) == CASE d = 1 -> 10 [] d = 2 -> 15 [] d = 3 -> 20
TableLoss(d) == CASE d = 1 -> 2 [] d = 2 -> 3 [] d = 3 -> 5
TableBonus(s) == CASE s = 3 -> 5 [] s = 5 -> 15 [] OTHER -> 0

(* C2: a step that completes a question changes (score, correctCount,       *)
(* wrongCount, streak) by exactly the table's row for its outcome at the    *)
(* difficulty of the question then presented, the raw score being the one   *)
(* stored in result; no other step of the session changes them.             *)
C2_ScoreDeltas ==
    [][InQuestion =>
        IF result'.qCount = result.qCount + 1
        THEN LET oc == outcomes'[result.qCount]
                 ans == result'.answers[result.qCount]
                 d == q.difficulty
                 delta == result'.score - score
             IN  /\ oc \in {"Answered", "TimedOut", "Skipped"}
                 /\ (oc = "Answered" /\ ans - 1 = q.correctIndex) =>
                       /\ delta = TableGain(d) + TableBonus(streak + 1)
                       /\ correctCount' = correctCount + 1
                       /\ wrongCount' = wrongCount
                       /\ streak' = streak + 1
                 /\ ((oc = "Answered" /\ ans - 1 # q.correctIndex) \/ oc = "TimedOut") =>
                       /\ delta = -TableLoss(d)
                       /\ correctCount' = correctCount
                       /\ wrongCount' = wrongCount + 1
                       /\ streak' = 0
                 /\ oc = "Skipped" =>
                       /\ delta = 0
                       /\ UNCHANGED <<correctCount, wrongCount, streak>>
                 /\ result'.correct = correctCount' /\ result'.wrong = wrongCount'
        ELSE UNCHANGED <<score, correctCount, wrongCount, streak>>]_vars

C2_Witness ==
    /\ pc = "done"
    /\ Cardinality(DOMAIN outcomes) = 2
    /\ outcomes[0] = "TimedOut" /\ outcomes[1] = "Answered"
    /\ quizQuestions[0].difficulty = 3 /\ quizQuestions[1].difficulty = 1
    /\ result.score = 5 /\ correctCount = 1 /\ wrongCount = 1

(* C3: a correct answer earns a bonus exactly when it raises the streak to  *)
(* 3 (+5) or to 5 (+15), whatever came before, so a rebuilt streak earns it *)
(* again; ten correct answers out of ten at difficulty 1 give 120 with      *)
(* correct = 10 and wrong = 0.                                              *)
C3_StreakBonus ==
    /\ [][correctCount' = correctCount + 1 =>
            /\ streak' = streak + 1
            /\ score' - score - TableGain(q.difficulty) =
                 (IF streak' = 3 THEN 5 ELSE IF streak' = 5 THEN 15 ELSE 0)]_vars
    /\ [][correctCount' = correctCount =>
            score' - score \in {0, -TableLoss(q.difficulty)}]_vars
    /\ []((result.qCount = 10 /\ correctCount = 10 /\ q.difficulty = 1)
            => (score = 120 /\ wrongCount = 0 /\ streak = 10))

C3_Witness ==
    /\ pc = "scoring"
    /\ result.qCount = 10 /\ correctCount = 10 /\ q.difficulty = 1
    /\ score = 120

(* C3, second case: a streak broken by a wrong answer and rebuilt to 3 *)
C3_WitnessRebuilt ==
    /\ pc = "scoring"
    /\ result.qCount = 7 /\ correctCount = 6 /\ wrongCount = 1 /\ streak = 3
    /\ q.difficulty = 1 /\ score = 60 - 2 + 5 + 5

(* A key was polled in this iteration of the loop *)
KeyPolled ==
    \/ \E k \in Digits : PollAnswer(k)
    \/ \E k \in LifelineKeys : PollLifeline(k)
    \/ \E k \in SkipKeys : PollSkip(k)
    \/ \E k \in OtherKeys : PollIgnored(k)

(* C4: an iteration of the polling loop that reads a key while now >=       *)
(* endTime does not complete the question as TimedOut, whatever the key.    *)
C4_InputWinsOverExpiry ==
    [][(pc = "running" /\ now >= endTime /\ KeyPolled) => ~Completes("TimedOut")]_vars

(* C4 for the keys that leave the loop: a digit, L, and S while Skip is     *)
(* available                                                                *)
C4_ActingKeysWin ==
    [][(pc = "running" /\ now >= endTime
          /\ \/ \E k \in Digits : PollAnswer(k)
             \/ \E k \in LifelineKeys : PollLifeline(k)
             \/ (lif_skip /\ \E k \in SkipKeys : PollSkip(k)))
        => ~Completes("TimedOut")]_vars

(* C5: a digit k polled while the question runs completes it as Answered    *)
(* with answer k, scored by comparing k - 1 with the correct index, also    *)
(* when no time remains; no timeout penalty is taken.                       *)
C5_AnswerAtZero ==
    [][\A k \in Digits :
         PollAnswer(k) =>
           /\ Completes("Answered")
           /\ result'.answers[result.qCount] = DigitValue(k)
           /\ IF DigitValue(k) - 1 = q.correctIndex
              THEN /\ correctCount' = correctCount + 1
                   /\ wrongCount' = wrongCount
                   /\ result'.score = score + TableGain(q.difficulty) + TableBonus(streak + 1)
              ELSE /\ correctCount' = correctCount
                   /\ wrongCount' = wrongCount + 1
                   /\ result'.score = score - TableLoss(q.difficulty)]_vars

(* The last question was answered correctly with no time left *)
C5_Witness ==
    /\ pc = "done"
    /\ now >= endTime /\ remainingSeconds = 0
    /\ outcomes[result.qCount - 1] = "Answered"
    /\ result.answers[result.qCount - 1] - 1 = quizQuestions[result.qCount - 1].correctIndex
    /\ correctCount = result.qCount

(* C6: whichever way the menu returns to the running loop without adding    *)
(* ExtraTime, the seconds remaining on return are the seconds snapshotted   *)
(* when L was pressed, however long the menu was open.                      *)
C6_MenuPausesClock ==
    [][(pc = "menu" /\ pc' = "running" /\ result'.qCount = result.qCount
          /\ lif_extra' = lif_extra)
        => Max0(endTime' - now) = remainingSeconds]_vars

(* C7: ExtraTime chosen while available is refused at a snapshot of 0       *)
(* (lifeline kept, endTime untouched) and otherwise consumed, making the    *)
(* remaining seconds the snapshot + 10 and endTime now + that; chosen once  *)
(* consumed it changes neither endTime nor any lifeline nor the question.   *)
C7_ExtraTime ==
    [][MenuExtraTime =>
         IF lif_extra /\ remainingSeconds = 0
         THEN lif_extra' /\ endTime' = endTime
         ELSE IF lif_extra
         THEN /\ ~lif_extra'
              /\ remainingSeconds' = remainingSeconds + 10
              /\ result'.remainingSecondsForCurrent = remainingSeconds + 10
              /\ endTime' = now + remainingSeconds + 10
         ELSE /\ ~lif_extra'
              /\ endTime' = endTime
              /\ UNCHANGED <<lif_5050, lif_skip, lif_replace, quizQuestions,
                             visibleOptions, visibleCount>>]_vars

(* ExtraTime taken at 7 seconds: 17 remain and the lifeline is gone *)
C7_Witness ==
    /\ pc = "running"
    /\ ~lif_extra
    /\ remainingSeconds = 17 /\ endTime = now + 17
    /\ lif_5050 /\ lif_skip /\ lif_replace

(* ExtraTime refused at 0 seconds *)
C7_WitnessRefused ==
    /\ pc = "running"
    /\ lif_extra
    /\ remainingSeconds = 0 /\ now > endTime
    /\ saveFile # NoFile
    /\ lif_5050 /\ lif_skip /\ lif_replace

(* C8: a Replace that finds no replacement leaves the lifeline available    *)
(* and the question, its options, its correct index and its visible options *)
(* as they were.                                                            *)
C8_ReplaceRefund ==
    [][(lif_replace /\ MenuReplace(QuizDraws) /\ quizQuestions' = quizQuestions)
        => (lif_replace' /\ UNCHANGED <<visibleOptions, visibleCount>>)]_vars

(* The failed Replace does leave the question and its visible options alone *)
C8_FailedReplaceKeepsQuestion ==
    [][(lif_replace /\ MenuReplace(QuizDraws) /\ quizQuestions' = quizQuestions)
        => UNCHANGED <<visibleOptions, visibleCount>>]_vars

Visible == { visibleOptions[k] : k \in 0 .. (visibleCount - 1) }

(* C9: while a question is presented its visible options contain the        *)
(* current correct index; they are all four at the start of a question and  *)
(* after a successful Replace, and FiftyFifty leaves exactly two, ascending: *)
(* the correct index and one wrong index.                                   *)
C9_CorrectVisible ==
    /\ [](InQuestion =>
            /\ q.correctIndex \in Visible
            /\ \/ visibleCount = 4 /\ visibleOptions = [i \in 0 .. 3 |-> i]
               \/ /\ visibleCount = 2 /\ ~lif_5050
                  /\ visibleOptions[0] < visibleOptions[1]
                  /\ Visible \subseteq 0 .. 3)
    /\ [][(pc' = "running" /\ (pc = "start" \/ result'.qCount # result.qCount))
            => (visibleCount' = 4 /\ Visible' = 0 .. 3)]_vars
    /\ [][(InQuestion /\ pc' = "running" /\ quizQuestions' # quizQuestions)
            => (visibleCount' = 4 /\ Visible' = 0 .. 3)]_vars
    /\ [][(lif_5050 /\ ~lif_5050')
            => /\ visibleCount' = 2
               /\ visibleOptions'[0] < visibleOptions'[1]
               /\ q.correctIndex \in Visible'
               /\ Cardinality(Visible') = 2]_vars

(* FiftyFifty has put the correct index second in the pair *)
C9_Witness ==
    /\ pc = "running"
    /\ ~lif_5050 /\ visibleCount = 2
    /\ visibleOptions[1] = q.correctIndex
    /\ visibleOptions[0] < visibleOptions[1]

Permutations4 == { p \in [0 .. 3 -> 0 .. 3] : \A i, j \in 0 .. 3 : p[i] = p[j] => i = j }

(* qq presents bank question b *)
Presents(qq, b) ==
    /\ qq.text = b.text
    /\ qq.originalCorrectIndex = b.originalCorrectIndex
    /\ \E p \in Permutations4 : qq.options = [i \in 0 .. 3 |-> b.options[p[i]]]
    /\ qq.correctIndex \in 0 .. 3
    /\ qq.options[qq.correctIndex] = b.options[b.originalCorrectIndex]

(* C10: every question of the session, selected at the start or installed   *)
(* by Replace, whose original correct index is in 0..3 shows a permutation  *)
(* of its bank question's options with options[correctIndex] the bank's     *)
(* original correct option.                                                 *)
C10_ShufflePreservesCorrect ==
    pc # "start" =>
      \A i \in DOMAIN quizQuestions :
        quizQuestions[i].originalCorrectIndex \in 0 .. 3 =>
          \E j \in DOMAIN allQ : Presents(quizQuestions[i], allQ[j])

(* Slot 0 held qA and Replace installed qB, its correct option moved from   *)
(* cell 3 to cell 0                                                        *)
C10_Witness ==
    /\ pc = "running"
    /\ ~lif_replace
    /\ allQ = BankTwo
    /\ qi = 0 /\ quizQuestions[1].text = "qB"
    /\ q.text = "qB" /\ q.originalCorrectIndex = 3 /\ q.correctIndex = 0
    /\ q.options = [i \in 0 .. 3 |-> <<"b4", "b3", "b1", "b2">>[i + 1]]

(* The bank cells of difficulty d, and the effective pool of section 4.1 *)
Matching(d) == { i \in DOMAIN allQ : allQ[i].difficulty = d }
EffectivePool(d) == IF Cardinality(Matching(d)) >= 10 THEN Matching(d) ELSE DOMAIN allQ
Min(a, b) == IF a < b THEN a ELSE b

(* The slots 0..n-1 of qs hold n pairwise distinct bank entries out of P *)
DistinctEntriesOf(qs, P) ==
    /\ Cardinality({ qs[i].text : i \in DOMAIN qs }) = Cardinality(DOMAIN qs)
    /\ \A i \in DOMAIN qs :
         \E j \in P : /\ qs[i].text = allQ[j].text
                      /\ qs[i].difficulty = allQ[j].difficulty
                      /\ qs[i].originalCorrectIndex = allQ[j].originalCorrectIndex

(* C11: startQuiz at difficulty d fills slots 0 .. min(10, |P|) - 1, P the  *)
(* bank cells of difficulty d if at least ten match and the whole bank      *)
(* otherwise, with pairwise distinct bank entries that all belong to P.     *)
C11_Selection ==
    [][\A d \in 1 .. 3 :
         StartQuizAt(StillDraws, [n \in Nat |-> PoolDraws(n)], d) =>
           LET P == EffectivePool(d)
           IN  /\ DOMAIN quizQuestions' = 0 .. (Min(10, Cardinality(P)) - 1)
               /\ DistinctEntriesOf(quizQuestions', P)
               /\ Cardinality(Matching(d)) >= 10 =>
                     \A i \in DOMAIN quizQuestions' : quizQuestions'[i].difficulty = d]_vars

(* Ten of the ten questions of difficulty 1 out of a bank of twelve, the    *)
(* first slot taken from the last matching cell                             *)
C11_Witness ==
    /\ pc = "running"
    /\ allQ = BankTwelve
    /\ quizCount = 10
    /\ \A i \in DOMAIN quizQuestions : quizQuestions[i].difficulty = 1
    /\ quizQuestions[0].text = "t10"

(* The fallback: ten of the twelve, a question of difficulty 3 among them *)
C11_WitnessFallback ==
    /\ pc = "running"
    /\ allQ = BankTwelve
    /\ quizCount = 10
    /\ \E i \in DOMAIN quizQuestions : quizQuestions[i].difficulty = 3
    /\ \E i \in DOMAIN quizQuestions : quizQuestions[i].difficulty = 1

(* Skip is taken: option 2 of the menu or the S key, the lifeline available *)
SkipTaken ==
    lif_skip /\ (MenuSkip \/ \E k \in SkipKeys : PollSkip(k))

(* C12: a question completed by Skip (option 2 of the menu or S, Skip       *)
(* available) keeps the raw score, correctCount, wrongCount and streak,     *)
(* records answer 0 for its slot, and the question that follows starts      *)
(* with the default 10 seconds.                                             *)
C12_SkipFrame ==
    [][SkipTaken =>
         /\ Completes("Skipped")
         /\ result'.answers[result.qCount] = 0
         /\ result'.score = score /\ result'.correct = correctCount
         /\ result'.wrong = wrongCount
         /\ UNCHANGED <<correctCount, wrongCount, streak>>
         /\ score' = (IF pc' = "done" THEN Max0(score) ELSE score)
         /\ pc' = "running" =>
               /\ qi' = qi + 1
               /\ remainingSeconds' = 10
               /\ endTime' = now + 10
               /\ result'.remainingSecondsForCurrent = 0]_vars

(* The first question was skipped after 50/50 was used on it: the second    *)
(* runs with 10 seconds and the tally is untouched                          *)
C12_Witness ==
    /\ pc = "running"
    /\ qi = 1 /\ outcomes[0] = "Skipped"
    /\ ~lif_skip /\ ~lif_5050
    /\ result.answers[0] = 0
    /\ score = 0 /\ correctCount = 0 /\ wrongCount = 0 /\ streak = 0
    /\ remainingSeconds = 10 /\ endTime = now + 10

(* The second question skipped by S after a correct answer: the tally of    *)
(* the first question stands                                                *)
C12_WitnessQuick ==
    /\ pc = "done"
    /\ Cardinality(DOMAIN outcomes) = 2
    /\ outcomes[0] = "Answered" /\ outcomes[1] = "Skipped"
    /\ correctCount = 1 /\ streak = 1 /\ wrongCount = 0
    /\ score > 0 /\ result.score = score
    /\ result.answers[1] = 0

(* C13: with the clock advancing and every menu prompt answered, every      *)
(* session ends, whatever keys are pressed.                                 *)
C13_AlwaysTerminates == <>(pc = "done")

(* C13 as the code has it: the session ends unless the lifeline menu is     *)
(* opened again and again for ever (L is read before the timeout check, so  *)
(* L and 0 in turn keep an expired question open).  A running question is   *)
(* completed or has its menu opened; an iteration at or past endTime that   *)
(* does not open the menu completes the question; endTime is moved later    *)
(* only by Replace and ExtraTime, once each; an outcome once recorded is    *)
(* one of the three and stays; and the session ends with as many questions  *)
(* completed as were selected.                                              *)
C13_TerminatesUnlessMenuForever ==
    /\ ([]<>(pc = "menu")) \/ <>(pc = "done")
    /\ \A n \in 0 .. 1 :
         (pc = "running" /\ qi = n) ~> (pc = "menu" \/ result.qCount > n)
    /\ [][(pc = "running" /\ now >= endTime /\ Poll /\ pc' # "menu")
            => result'.qCount = result.qCount + 1]_vars
    /\ [][(InQuestion /\ result'.qCount = result.qCount /\ endTime' > endTime)
            => ((lif_replace /\ ~lif_replace') \/ (lif_extra /\ ~lif_extra'))]_vars
    /\ [][\A i \in DOMAIN outcomes :
            i \in DOMAIN outcomes' /\ outcomes'[i] = outcomes[i]]_vars
    /\ [](/\ DOMAIN outcomes = 0 .. (result.qCount - 1)
          /\ \A i \in DOMAIN outcomes : outcomes[i] \in {"Answered", "Skipped", "TimedOut"})
    /\ [](pc = "done" => (result.qCount = quizCount /\ qi = quizCount))

(* A session of two questions ended by the clock alone, after Replace and   *)
(* ExtraTime had both moved endTime                                         *)
C13_Witness ==
    /\ pc = "done"
    /\ result.qCount = 2 /\ quizCount = 2
    /\ outcomes[0] = "TimedOut" /\ outcomes[1] = "TimedOut"
    /\ ~lif_replace /\ ~lif_extra /\ lif_skip

(* The score and the remaining seconds the progress file holds *)
SnapshotScore == saveFile[2][1].val
SnapshotRemaining == saveFile[5][1].val

(* The raw score of section 4.5 for the questions completed so far, from    *)
(* their outcomes, recorded answers and the table                           *)
RECURSIVE RawFrom(_, _, _)
RawFrom(i, sc, st) ==
    IF i >= Cardinality(DOMAIN outcomes) THEN sc
    ELSE LET d == quizQuestions[i].difficulty
             right == /\ outcomes[i] = "Answered"
                      /\ result.answers[i] - 1 = quizQuestions[i].correctIndex
         IN  IF outcomes[i] = "Skipped" THEN RawFrom(i + 1, sc, st)
             ELSE IF right THEN RawFrom(i + 1, sc + TableGain(d) + TableBonus(st + 1), st + 1)
             ELSE RawFrom(i + 1, sc - TableLoss(d), 0)

RawScore == RawFrom(0, 0, 0)

AllTimedOut ==
    /\ Cardinality(DOMAIN outcomes) = 10
    /\ \A i \in DOMAIN outcomes : outcomes[i] = "TimedOut"

(* C14: while questions are asked the running score is the raw score, never *)
(* clamped, and so is the score of every progress snapshot; when the        *)
(* session completes the final score and the high-score entry hold          *)
(* max(0, raw) and the session log holds raw.  Ten timeouts at difficulty 3 *)
(* give raw -50, final 0, wrong = 10.                                       *)
C14_FinalScore ==
    /\ InQuestion => (score = RawScore /\ result.score = RawScore)
    /\ saveFile # NoFile => SnapshotScore = RawScore
    /\ pc = "done" =>
          /\ score = (IF RawScore < 0 THEN 0 ELSE RawScore)
          /\ Len(highScoreFile) = 1 /\ readHighScores(highScoreFile)[1].score = score
          /\ Len(logFile) = 1 /\ logFile[1].score = RawScore
          /\ result.score = RawScore
    /\ (pc = "done" /\ AllTimedOut) =>
          (RawScore = -50 /\ score = 0 /\ wrongCount = 10 /\ correctCount = 0)

(* Ten timeouts: 0 is displayed and kept as high score, -50 is logged *)
C14_Witness ==
    /\ pc = "done"
    /\ AllTimedOut
    /\ score = 0 /\ readHighScores(highScoreFile)[1].score = 0
    /\ logFile[1].score = -50 /\ logFile[1].wrong = 10

(* A snapshot with a negative score, written when the menu was left *)
C14_WitnessSnapshot ==
    /\ pc = "running"
    /\ saveFile # NoFile
    /\ SnapshotScore < 0 /\ SnapshotRemaining > 0

(* C15: at every moment at which a question after the first is running      *)
(* (the process may be killed there), the snapshot on disk holds the        *)
(* seconds then remaining and the running score.                            *)
C15_SnapshotTracksClock ==
    (pc = "running" /\ qi >= 1) =>
      /\ saveFile # NoFile
      /\ SnapshotRemaining = Remaining
      /\ SnapshotScore = score

(* What the snapshot does hold then: the score and the answers of the       *)
(* questions completed, and the seconds that remained when it was written   *)
(* (0 at the completion of the question before, the remainder on leaving    *)
(* the menu)                                                                *)
C15_SnapshotScore ==
    (pc = "running" /\ qi >= 1) =>
      /\ saveFile # NoFile
      /\ SnapshotScore = score
      /\ SnapshotRemaining = result.remainingSecondsForCurrent
      /\ Len(saveFile[3]) = qi

(* C16: the quiz started after Resume has shown a valid snapshot begins     *)
(* with the snapshot's score and its first question with the snapshot's     *)
(* remaining seconds, the default 10 only if those are 0.                   *)
C16_ResumeRestores ==
    [][(pc = "resumed" /\ pc' = "running") =>
         LET r == loadProgress(saveFile)
         IN  /\ score' = r.score
             /\ remainingSeconds' = (IF r.remainingSecondsForCurrent > 0
                                     THEN r.remainingSecondsForCurrent
                                     ELSE DEFAULT_TIME_PER_QUESTION)]_vars

(* What the quiz started after Resume begins with: nothing of the snapshot *)
C16_ResumeInformational ==
    /\ [][MainResume => UNCHANGED <<score, correctCount, wrongCount, result,
                                    remainingSeconds, saveFile>>]_vars
    /\ [][(pc = "resumed" /\ pc' = "running") =>
            /\ score' = 0 /\ result'.score = 0 /\ result'.qCount = 0
            /\ remainingSeconds' = DEFAULT_TIME_PER_QUESTION
            /\ endTime' = now + DEFAULT_TIME_PER_QUESTION]_vars

(* Every token of the line is an integer *)
AllNums(line) == \A i \in 1 .. Len(line) : line[i].num

(* The progress file has its aggregate line (four integers), its answers    *)
(* line, its question-indices line and its remaining-seconds line, each     *)
(* holding integers only                                                    *)
WellFormed(f) ==
    /\ Len(f) >= 5
    /\ Len(f[2]) >= 4 /\ AllNums(f[2])
    /\ AllNums(f[3])
    /\ AllNums(f[4])
    /\ Len(f[5]) >= 1 /\ AllNums(f[5])

(* C17: Resume shows restored data only for a progress file none of whose   *)
(* lines is missing or fails to parse.                                      *)
C17_MalformedIsAbsent ==
    pc = "resumed" => WellFormed(saveFile)

(* What loadProgress does refuse: a file without its first four lines or    *)
(* whose aggregate line does not start with four integers.  Words in the    *)
(* answers or indices line end the list there, and a missing or unreadable  *)
(* remaining-seconds line is read as the default.                           *)
C17_AggregateGuardsOnly ==
    [][MainResume =>
         /\ (pc' = "resumed") <=>
               /\ Len(saveFile) >= 4
               /\ Len(saveFile[2]) >= 4
               /\ \A i \in 1 .. 4 : saveFile[2][i].num
         /\ (pc' = "resumed" /\ ~WellFormed(saveFile) /\ Len(saveFile) < 5) =>
               loadProgress(saveFile).remainingSecondsForCurrent = 10]_vars

(* C18: each entry written to the high-score file adds exactly that entry,  *)
(* with equal fields, at the end of what readHighScores returns; starting   *)
(* from the empty file, N writes are read back as the N entries in order.   *)
C18_RoundTrip ==
    [][\A entry \in EntriesTried :
         WriteScore(entry) =>
           readHighScores(highScoreFile') = Append(readHighScores(highScoreFile), entry)]_vars

(* The round trip for names without the separator, below the 50 entries     *)
(* readHighScores keeps                                                     *)
C18_RoundTripPlainNames ==
    [][\A entry \in EntriesTried :
         (WriteScore(entry) /\ Find(entry.name, 1) = 0
            /\ Len(readHighScores(highScoreFile)) = Len(highScoreFile))
         => readHighScores(highScoreFile') = Append(readHighScores(highScoreFile), entry)]_vars

(* C19: the index recorded for a slot when its question is entered is the   *)
(* bank cell of the question selected for that slot.                        *)
C19_RecordsBankIndex ==
    [][\A k \in (DOMAIN result'.questionIndices) \ (DOMAIN result.questionIndices) :
         /\ result'.questionIndices[k] \in DOMAIN allQ
         /\ allQ[result'.questionIndices[k]].text = quizQuestions'[k].text]_vars

(* What is recorded: the number of the slot itself, 0, 1, 2, ... whatever   *)
(* the selection, in result, in the snapshot and in the session log         *)
C19_RecordsSlotNumber ==
    /\ \A k \in DOMAIN result.questionIndices : result.questionIndices[k] = k
    /\ saveFile # NoFile => \A k \in 1 .. Len(saveFile[4]) : saveFile[4][k].val = k - 1
    /\ pc = "done" =>
          logFile[1].questionIndices = [k \in 0 .. (result.qCount - 1) |-> k]

(* C20: an iteration of the loop whose poller finds a byte of an extended   *)
(* key press at the head of the input does what an iteration without a key  *)
(* does: no byte of the press is returned as a character, whether its       *)
(* second byte was in the input when the prefix was read or came later.     *)
C20_ExtendedKeyIsNone ==
    [][(PollKey /\ kbd.buf # << >> /\ Head(kbd.buf).ext)
        => (getNonBlockingKey(kbd).key = NoKey /\ TimeoutCheck)]_vars

(* With both bytes in the input when the prefix is read, both are drained   *)
(* and the iteration is one without a key                                   *)
C20_DrainedWhenTogether ==
    [][(PollKey /\ Len(kbd.buf) >= 2 /\ kbd.buf[1].ext /\ kbd.buf[1].byte \in {0, 224})
        => /\ kbd'.buf = Tail(Tail(kbd.buf))
           /\ TimeoutCheck]_vars

(* The places of the call named op in a sequence of file operations *)
Places(ops, op) == { i \in 1 .. Len(ops) : ops[i] = op }
Once(ops, op) == Cardinality(Places(ops, op)) = 1
Before(ops, a, b) == \A i \in Places(ops, a) : \A j \in Places(ops, b) : i < j

C21_WitnessSnapshot ==
    /\ pc = "running" /\ qi = 1
    /\ fileOps = <<"saveProgress", "saveProgress">>
    /\ Len(saveFile[3]) = 1 /\ saveFile[3][1].val = 2
    /\ highScoreFile = << >> /\ logFile = << >>

-----------------------------------------------------------------------------
(* The category file.  main calls startQuiz with a category file (lines     *)
(* 594-606); startQuiz loads it and either goes on to its prompts or        *)
(* reports the failure, waits for Enter and returns (lines 302-304).        *)
(* Question texts are q and r, the options a to d; the correct-index and    *)
(* difficulty lines are drawn from lines that are integers in range,        *)
(* integers out of range, digits followed by a letter, a letter, or empty.  *)
Text1 == <<"q">>
Text2 == <<"r">>
OptionLines == << <<"a">>, <<"b">>, <<"c">>, <<"d">> >>
CorrLinesTried == { <<"2">>, <<"0">>, <<"5">>, <<"2", "x">>, <<"x">> }
DiffLinesTried == { <<"1">>, <<"7">>, <<"3", "x">>, << >> }

(* A record as the file holds it: its first len lines, and a blank line    *)
(* after them if sep                                                        *)
RecordsTried ==
    [text : {Text1, Text2}, corr : CorrLinesTried, diff : DiffLinesTried,
     len : {MAX_OPTIONS + 3}, sep : BOOLEAN]
      \cup [text : {Text1}, corr : {<<"2">>}, diff : {<<"1">>},
            len : {1, MAX_OPTIONS + 1, MAX_OPTIONS + 2}, sep : BOOLEAN]

RecordLines(rec) ==
    SubSeq(<<rec.text>> \o OptionLines \o <<rec.corr, rec.diff>>, 1, rec.len)
      \o (IF rec.sep THEN << << >> >> ELSE << >>)

RECURSIVE FileLines(_)
FileLines(recs) ==
    IF recs = << >> THEN << >> ELSE RecordLines(Head(recs)) \o FileLines(Tail(recs))

(* The files tried, each as the sequence of its records *)
CategoryFilesTried == UNION { [1 .. n -> RecordsTried] : n \in 0 .. MaxRecords }

InitBank ==
    /\ allQ = Empty
    /\ quizQuestions = Empty
    /\ qi = 0
    /\ lif_5050 = TRUE /\ lif_skip = TRUE /\ lif_replace = TRUE /\ lif_extra = TRUE
    /\ score = 0 /\ correctCount = 0 /\ wrongCount = 0 /\ streak = 0
    /\ result = NewResult
    /\ visibleOptions = AllVisible /\ visibleCount = MAX_OPTIONS
    /\ remainingSeconds = DEFAULT_TIME_PER_QUESTION
    /\ endTime = now
    /\ pc = "main"
    /\ saveFile = NoFile /\ highScoreFile = <<>> /\ logFile = <<>>
    /\ outcomes = Empty
    /\ categoryFile \in CategoryFilesTried
    /\ fileOps = << >>
    /\ kbd = NoKeys

(* lines 594-606 and 300-304: choice 1 of main's menu, the category chosen, *)
(* and the load of its file at the head of startQuiz                        *)
LoadQuestions ==
    /\ pc = "main"
    /\ LET l == loadQuestionsFromFile(FileLines(categoryFile))
       IN  /\ allQ' = l.questions
           /\ pc' = IF l.ok THEN "start" ELSE "failed"
    /\ UNCHANGED <<categoryFile, quizQuestions, qi, lif_5050, lif_skip, lif_replace,
                   lif_extra, score, correctCount, wrongCount, streak, result,
                   visibleOptions, visibleCount, remainingSeconds, endTime, saveFile,
                   highScoreFile, logFile, outcomes, fileOps, kbd>>

(* lines 303-304 and 589-593: Enter is pressed, startQuiz returns and main  *)
(* shows its menu again                                                     *)
ReturnToMenu ==
    /\ pc = "failed"
    /\ pc' = "main"
    /\ allQ' = Empty
    /\ UNCHANGED <<categoryFile, quizQuestions, qi, lif_5050, lif_skip, lif_replace,
                   lif_extra, score, correctCount, wrongCount, streak, result,
                   visibleOptions, visibleCount, remainingSeconds, endTime, saveFile,
                   highScoreFile, logFile, outcomes, fileOps, kbd>>

NextBank ==
    \/ LoadQuestions
    \/ ReturnToMenu
    \/ StartQuizFrom(StillDraws, [n \in Nat |-> Still(n)])
    \/ PollLifeline("L")
    \/ MenuReplace(StillDraws)

SpecBank == InitBank /\ [][NextBank]_vars

(* The line is an integer: an optional sign and one or more digits *)
IsInteger(line) ==
    LET body == IF Len(line) >= 1 /\ line[1] \in {"-", "+"} THEN Tail(line) ELSE line
    IN  body # << >> /\ \A i \in 1 .. Len(body) : IsDigit(body[i])

Truncated(rec) == rec.len < MAX_OPTIONS + 3

(* The category file is missing or holds no question, or one of its records *)
(* is truncated or has a correct-index or difficulty line that is not an    *)
(* integer                                                                  *)
MalformedFile(recs) ==
    \/ recs = << >>
    \/ \E i \in 1 .. Len(recs) :
         Truncated(recs[i]) \/ ~IsInteger(recs[i].corr) \/ ~IsInteger(recs[i].diff)

NoSession ==
    /\ pc' = "failed"
    /\ UNCHANGED <<quizQuestions, result, score, outcomes, saveFile, highScoreFile,
                   logFile, fileOps>>

(* C22: startQuiz on a category file that is missing, holds no question,    *)
(* has a truncated record or a non-integer correct-index or difficulty line *)
(* reports the failure and returns to main's menu: no question is asked and *)
(* neither the snapshot, the high-score file nor the session log is written.*)
C22_MalformedCreatesNoSession ==
    /\ [][(LoadQuestions /\ MalformedFile(categoryFile)) => NoSession]_vars
    /\ [][pc = "failed" =>
            (pc' = "main" /\ UNCHANGED <<quizQuestions, result, saveFile, highScoreFile,
                                         logFile, fileOps>>)]_vars

(* What the loader refuses when every record is followed by its blank line: *)
(* no file or no record, a truncated record, and a correct-index or         *)
(* difficulty line on which stoi throws, that is one that does not start    *)
(* with a digit; digits followed by anything are read as the integer they   *)
(* start with.  (Without the blank line the line after a record is dropped  *)
(* all the same, be it the text of the next record.)                        *)
C22_RefusedCreatesNoSession ==
    /\ [][(/\ LoadQuestions
           /\ \A i \in 1 .. Len(categoryFile) : categoryFile[i].sep
           /\ \/ categoryFile = << >>
              \/ \E i \in 1 .. Len(categoryFile) :
                   \/ Truncated(categoryFile[i])
                   \/ ~stoi(categoryFile[i].corr).ok
                   \/ ~stoi(categoryFile[i].diff).ok)
          => NoSession]_vars
    /\ [][pc = "failed" =>
            (pc' = "main" /\ UNCHANGED <<quizQuestions, result, saveFile, highScoreFile,
                                         logFile, fileOps>>)]_vars

(* C23: every question of a session, selected at the start or installed by  *)
(* Replace, has difficulty 1, 2 or 3 and an original correct index in 0..3, *)
(* whatever category file the loader accepted.                              *)
C23_QuestionsInRange ==
    InQuestion =>
      \A i \in DOMAIN quizQuestions :
        /\ quizQuestions[i].difficulty \in 1 .. 3
        /\ quizQuestions[i].originalCorrectIndex \in 0 .. (MAX_OPTIONS - 1)

(* What the questions of a session do carry: the difficulty and the         *)
(* original correct index of a bank entry, which are the integers stoi read *)
(* off the file (the correct index less one), unchecked                     *)
C23_CarriesFileValues ==
    /\ InQuestion =>
         \A i \in DOMAIN quizQuestions :
           \E j \in DOMAIN allQ :
             /\ quizQuestions[i].text = allQ[j].text
             /\ quizQuestions[i].difficulty = allQ[j].difficulty
             /\ quizQuestions[i].originalCorrectIndex = allQ[j].originalCorrectIndex
    /\ \A j \in DOMAIN allQ :
         \E i \in 1 .. Len(categoryFile) :
           /\ allQ[j].text = categoryFile[i].text
           /\ allQ[j].difficulty = stoi(categoryFile[i].diff).val
           /\ allQ[j].originalCorrectIndex = stoi(categoryFile[i].corr).val - 1

(* The bank holds a question whose text differs from the current one's *)
AlternativeExists == \E j \in DOMAIN allQ : allQ[j].text # q.text

(* C24: Replace chosen while available, with a bank question of another     *)
(* text in existence, ends with the current question replaced by a question *)
(* of another text, whatever rand() returns.                                *)
C24_ReplaceFindsAlternative ==
    [][(lif_replace /\ MenuReplace(QuizDraws) /\ AlternativeExists)
        => quizQuestions'[qi].text # q.text]_vars

(* What Replace chosen while available does: it installs a bank question of *)
(* another text with all four options visible, or, when none of its         *)
(* allCount draws hit one, leaves the question as it is; the other          *)
(* questions of the session are untouched either way                        *)
C24_ReplaceOutcome ==
    [][(lif_replace /\ MenuReplace(QuizDraws)) =>
         /\ \/ /\ \E j \in DOMAIN allQ :
                    /\ allQ[j].text # q.text
                    /\ quizQuestions'[qi].text = allQ[j].text
               /\ visibleCount' = MAX_OPTIONS
            \/ UNCHANGED <<quizQuestions, visibleOptions, visibleCount>>
         /\ ~AlternativeExists => UNCHANGED quizQuestions
         /\ \A i \in DOMAIN quizQuestions : i # qi => quizQuestions'[i] = quizQuestions[i]
         /\ ~lif_replace']_vars

(* This step enters a question: the first of the quiz, or the one after a   *)
(* completed question                                                       *)
EntersQuestion ==
    /\ pc' = "running"
    /\ pc \in {"start", "resumed"} \/ result'.qCount = result.qCount + 1

(* C25: every question of a quiz is entered with remainingSecondsForCurrent *)
(* 0 and so with the default 10 seconds, whatever time was left when the    *)
(* question before it was answered, skipped or timed out, and the snapshot  *)
(* written when a question is completed holds 0 remaining seconds.          *)
C25_NoCarryOver ==
    /\ [][EntersQuestion =>
            /\ remainingSeconds' = DEFAULT_TIME_PER_QUESTION
            /\ endTime' = now + DEFAULT_TIME_PER_QUESTION
            /\ result'.remainingSecondsForCurrent = 0]_vars
    /\ [][(InQuestion /\ result'.qCount = result.qCount + 1) =>
            /\ result'.remainingSecondsForCurrent = 0
            /\ pc' = "running" => (saveFile' # NoFile /\ saveFile'[5] = <<Num(0)>>)]_vars
    /\ []((pc = "running" /\ fileOps = <<"saveProgress", "saveProgress">>)
            => SnapshotRemaining = 0)

(* The first question was answered after ExtraTime had been added to it;    *)
(* the second has just been entered with 10 seconds and the snapshot holds 0 *)
C25_Witness ==
    /\ pc = "running" /\ qi = 1
    /\ outcomes[0] = "Answered" /\ ~lif_extra
    /\ remainingSeconds = 10 /\ endTime = now + 10
    /\ result.remainingSecondsForCurrent = 0
    /\ SnapshotRemaining = 0

(* C26: the questions completed so far are counted once each, as correct,   *)
(* as wrong or as skipped; the streak never exceeds the correct answers;    *)
(* the answer recorded for a completed question is 0..4 and is not 0        *)
(* exactly when the question was completed as Answered; at the end of the   *)
(* session correctCount + wrongCount is the number of questions, or one     *)
(* less when one was skipped.                                               *)
C26_CountsAddUp ==
    /\ correctCount + wrongCount + SkippedCount = result.qCount
    /\ correctCount >= 0 /\ wrongCount >= 0
    /\ streak >= 0 /\ streak <= correctCount
    /\ result.correct + result.wrong + SkippedCount = result.qCount
    /\ \A i \in 0 .. (result.qCount - 1) :
         /\ result.answers[i] \in 0 .. MAX_OPTIONS
         /\ result.answers[i] # 0 <=> outcomes[i] = "Answered"
    /\ pc = "done" =>
         /\ result.qCount = quizCount
         /\ correctCount + wrongCount \in {quizCount - 1, quizCount}
         /\ correctCount + wrongCount = quizCount - 1 <=> SkippedCount = 1

(* A session of two questions, the first timed out and the second skipped:  *)
(* one question is counted, as wrong                                        *)
C26_Witness ==
    /\ pc = "done"
    /\ result.qCount = 2
    /\ outcomes[0] = "TimedOut" /\ outcomes[1] = "Skipped"
    /\ correctCount = 0 /\ wrongCount = 1 /\ streak = 0
    /\ result.answers[0] = 0 /\ result.answers[1] = 0

(* Two questions answered, the first wrongly and the second correctly *)
C26_WitnessAnswered ==
    /\ pc = "done"
    /\ result.qCount = 2
    /\ outcomes[0] = "Answered" /\ outcomes[1] = "Answered"
    /\ correctCount = 1 /\ wrongCount = 1 /\ streak = 1
    /\ result.answers[0] # 0 /\ result.answers[1] # 0

(* The remaining seconds of section 4.3, and the remaining seconds with the *)
(* countdown held at the prompt of the lifeline menu: there they are the    *)
(* seconds snapshotted when L was pressed                                   *)
SecondsLeft == IF endTime - now < 0 THEN 0 ELSE endTime - now
SecondsHeld == IF pc = "menu" THEN remainingSeconds ELSE SecondsLeft

(* This step stays within the question and does not consume ExtraTime *)
StaysInQuestion ==
    /\ InQuestion /\ pc' \in {"running", "menu"}
    /\ result'.qCount = result.qCount
    /\ lif_extra' = lif_extra

(* C27: throughout every question max(0, endTime - now) is in 0..20, is     *)
(* above 10 only once ExtraTime has been consumed, and is never raised by a *)
(* step other than the one that consumes ExtraTime.                         *)
C27_RemainingNeverIncreases ==
    /\ [](InQuestion => SecondsLeft \in 0 .. 20)
    /\ [](InQuestion /\ SecondsLeft > 10 => ~lif_extra)
    /\ [][StaysInQuestion => SecondsLeft' <= SecondsLeft]_vars

(* C27 with the countdown taken as held while the lifeline menu is open:    *)
(* the seconds left never exceed the seconds held, which are in 0..20 and   *)
(* above 10 only once ExtraTime has been consumed; a question is entered    *)
(* with 10; opening the menu holds the seconds then left; no step within a  *)
(* question raises the seconds held except the one that consumes ExtraTime, *)
(* which adds 10 to them.  Replace (and ExtraTime) chosen after time has    *)
(* passed at the prompt puts endTime back to now + the seconds held, so     *)
(* max(0, endTime - now) does rise there, up to the value L snapshotted.    *)
C27_HeldSecondsNeverIncrease ==
    /\ [](InQuestion =>
            /\ SecondsLeft \in 0 .. 20 /\ SecondsHeld \in 0 .. 20
            /\ SecondsLeft <= SecondsHeld
            /\ SecondsHeld > 10 => ~lif_extra)
    /\ [][EntersQuestion => SecondsHeld' = DEFAULT_TIME_PER_QUESTION]_vars
    /\ [][(pc = "running" /\ pc' = "menu") => SecondsHeld' = SecondsLeft]_vars
    /\ [][StaysInQuestion => SecondsHeld' <= SecondsHeld]_vars
    /\ [][(InQuestion /\ lif_extra /\ ~lif_extra') =>
            /\ pc = "menu" /\ pc' = "running"
            /\ SecondsHeld' = SecondsHeld + EXTRA_TIME_AMOUNT]_vars

(* ExtraTime was taken at 7 seconds; Replace and 50/50 have since returned  *)
(* from the menu and 17 seconds are left                                    *)
C27_Witness ==
    /\ pc = "running"
    /\ ~lif_extra /\ ~lif_replace /\ ~lif_5050 /\ lif_skip
    /\ SecondsLeft = 17 /\ qi = 0

=============================================================================
